---- MODULE Spec2Model ----
(***************************************************************************)
(* Model of mail-search: the SQLite persistence layer (database.py), the   *)
(* mbox indexer (indexer.py), the embedding backends (semantic.py) and the *)
(* search / index commands (cli.py).                                       *)
(*                                                                         *)
(* Texts are sequences of one-character strings.  Floating point values    *)
(* are fixed-point integers: a Python float v is the integer v * Scale;    *)
(* a float32 keeps only multiples of Quantum.                              *)
(***************************************************************************)
EXTENDS Integers, Sequences, FiniteSets, TLC

----------------------------------------------------------------------------
(* Bounds of the model *)

MaxBatch == 2
MaxLimit == 2

(* Fixed-point representation of floats *)
Scale == 1000
Quantum == 10

(* Program constants *)
DefaultDimension == 256
DigestChunks == 4
PreviewLength == 160

NoneVal == "<None>"

----------------------------------------------------------------------------
(* Generic sequence helpers *)

Range(s) == {s[i] : i \in 1..Len(s)}

Take(s, n) == IF n >= Len(s) THEN s ELSE SubSeq(s, 1, n)

RECURSIVE SumRange(_, _, _)
SumRange(s, lo, hi) ==
    IF lo > hi THEN 0
    ELSE IF lo = hi THEN s[lo]
    ELSE LET mid == (lo + hi) \div 2
         IN  SumRange(s, lo, mid) + SumRange(s, mid + 1, hi)

SumSeq(s) == SumRange(s, 1, Len(s))

RECURSIVE SelectSeqBy(_, _)
SelectSeqBy(s, keep) ==
    IF s = <<>> THEN <<>>
    ELSE IF Head(s) \in keep THEN <<Head(s)>> \o SelectSeqBy(Tail(s), keep)
         ELSE SelectSeqBy(Tail(s), keep)

Perms(S) == {p \in [1..Cardinality(S) -> S] : \A x \in S : \E i \in DOMAIN p : p[i] = x}

Abs(n) == IF n < 0 THEN -n ELSE n

(* integer square root, by bisection: the float operation x ** 0.5 *)
RECURSIVE SqrtBisect(_, _, _)
SqrtBisect(n, lo, hi) ==
    IF lo >= hi THEN lo
    ELSE LET mid == (lo + hi + 1) \div 2
         IN  IF mid * mid <= n THEN SqrtBisect(n, mid, hi)
             ELSE SqrtBisect(n, lo, mid - 1)

ISqrt(n) == SqrtBisect(n, 0, 46340)

(* x / y of two floats, both at Scale, rounded to nearest *)
FDiv(x, y) == (2 * x * Scale + y) \div (2 * y)

(* x * y of two floats *)
FMul(x, y) == (x * y) \div Scale

(* x ** 0.5 of a float at Scale *)
FSqrt(x) == ISqrt(x * Scale)

----------------------------------------------------------------------------
(* semantic.py : tokenizer, hash embedding, vector helpers *)

Lower(c) == IF c = "A" THEN "a" ELSE IF c = "B" THEN "b" ELSE c

IsAlnum(c) == c \in {"a", "b", "A", "B"}

IsSpace(c) == c \in {" ", "\n"}

RECURSIVE TokenizeFrom(_, _, _)
TokenizeFrom(text, current, tokens) ==
    IF text = <<>>
    THEN IF current # <<>> THEN Append(tokens, current) ELSE tokens
    ELSE LET char == Lower(Head(text))
         IN  IF IsAlnum(char)
             THEN TokenizeFrom(Tail(text), Append(current, char), tokens)
             ELSE IF current # <<>>
                  THEN TokenizeFrom(Tail(text), <<>>, Append(tokens, current))
                  ELSE TokenizeFrom(Tail(text), current, tokens)

_tokenize(text) == TokenizeFrom(text, <<>>, <<>>)

(* _normalise: divide every component by the Euclidean norm; the zero *)
(* vector is left alone.  Components in: floats at Scale.              *)
_normalise(vector) ==
    LET norm_sq == SumSeq([i \in DOMAIN vector |-> FMul(vector[i], vector[i])])
    IN  IF norm_sq = 0 THEN vector
        ELSE LET norm == FSqrt(norm_sq)
             IN  [i \in DOMAIN vector |-> FDiv(vector[i], norm)]

(* blake2b(token, digest_size=16) read as four little-endian 32 bit     *)
(* chunks.  The digest is a fixed function of the token; the model      *)
(* takes one whose chunks all have the parity of the token's code, so   *)
(* that under dimension 2 the tokens "a" and "b" fall in disjoint       *)
(* buckets.                                                             *)
CharCode(c) == IF c = "a" THEN 1 ELSE IF c = "b" THEN 2 ELSE 3

RECURSIVE TokenCode(_)
TokenCode(token) ==
    IF token = <<>> THEN 0
    ELSE (TokenCode(SubSeq(token, 1, Len(token) - 1)) * 3
            + CharCode(token[Len(token)])) % 65536

Digest(token) ==
    [k \in 1..DigestChunks |-> 2 * (TokenCode(token) * 31 * k + k) + (TokenCode(token) % 2)]

RECURSIVE AddBuckets(_, _)
AddBuckets(vector, indexes) ==
    IF indexes = <<>> THEN vector
    ELSE AddBuckets([vector EXCEPT ![Head(indexes)] = @ + Scale], Tail(indexes))

RECURSIVE AddTokens(_, _, _)
AddTokens(vector, tokens, dimension) ==
    IF tokens = <<>> THEN vector
    ELSE LET digest == Digest(Head(tokens))
             indexes == [k \in 1..DigestChunks |-> (digest[k] % dimension) + 1]
         IN  AddTokens(AddBuckets(vector, indexes), Tail(tokens), dimension)

(* HashEmbeddingBackend.embed, for one text *)
HashEmbed(dimension, text) ==
    _normalise(AddTokens([i \in 1..dimension |-> 0], _tokenize(text), dimension))

(* float32 conversion: array("f", ...) keeps a float only to Quantum *)
Float32(v) ==
    LET r == Abs(v) % Quantum
        down == Abs(v) - r
        m == IF 2 * r >= Quantum THEN down + Quantum ELSE down
    IN  IF v < 0 THEN -m ELSE m

serialise_vector(vector) == [i \in DOMAIN vector |-> Float32(vector[i])]

deserialise_vector(blob) == [i \in DOMAIN blob |-> blob[i]]

Min(a, b) == IF a < b THEN a ELSE b

cosine_similarity(lhs, rhs) ==
    LET n == Min(Len(lhs), Len(rhs))
        numerator == SumSeq([i \in 1..n |-> FMul(lhs[i], rhs[i])])
        lhs_norm_sq == SumSeq([i \in 1..n |-> FMul(lhs[i], lhs[i])])
        rhs_norm_sq == SumSeq([i \in 1..n |-> FMul(rhs[i], rhs[i])])
    IN  IF lhs_norm_sq = 0 \/ rhs_norm_sq = 0 THEN 0
        ELSE LET denominator == FMul(FSqrt(lhs_norm_sq), FSqrt(rhs_norm_sq))
             IN  IF numerator >= 0 THEN FDiv(numerator, denominator)
                 ELSE -FDiv(-numerator, denominator)

----------------------------------------------------------------------------
(* semantic.py : embedding backends and their resolution *)

NoIdentifier == <<"none">>

NoEmbedder == [kind |-> "none", identifier |-> NoIdentifier]

LoadError(what) == [kind |-> "error", error |-> what]

IsBackend(b) == b.kind \in {"hash", "st"}

DefaultModel == "all-MiniLM-L6-v2"

(* HashEmbeddingBackend.__init__ *)
HashEmbeddingBackend(dimension) ==
    IF dimension <= 0 THEN LoadError("ValueError")
    ELSE [kind |-> "hash", dimension |-> dimension, identifier |-> <<"hash/", dimension>>]

(* SentenceTransformerBackend.__init__: the import and the model load     *)
(* succeed only where the library and the model are installed.            *)
SentenceTransformerBackend(model_name, st_available) ==
    IF ~st_available THEN LoadError("ImportError")
    ELSE [kind |-> "st", model_name |-> model_name,
          identifier |-> <<"sentence-transformers/", model_name>>]

(* int(text) for the dimension part of a backend name *)
ParseInt(text) ==
    CASE text = "0" -> [ok |-> TRUE, value |-> 0]
      [] text = "2" -> [ok |-> TRUE, value |-> 2]
      [] text = "3" -> [ok |-> TRUE, value |-> 3]
      [] OTHER -> [ok |-> FALSE]

(* A backend name is the sequence of its lexemes:                       *)
(*   <<"hash">>, <<"hash", ":", "2">>, <<"sentence-transformers/", m>>,  *)
(*   <<m>>; the empty sequence is the absent (or empty) name.            *)
load_backend(name, st_available) ==
    IF name[1] = "hash"
    THEN IF Len(name) >= 3 /\ name[2] = ":"
         THEN IF ~ParseInt(name[3]).ok THEN LoadError("ValueError")
              ELSE HashEmbeddingBackend(ParseInt(name[3]).value)
         ELSE HashEmbeddingBackend(DefaultDimension)
    ELSE LET model == IF name[1] = "sentence-transformers/" THEN name[2] ELSE name[1]
         IN  SentenceTransformerBackend(model, st_available)

(* a variant without the try / except around the environment's backend *)
load_default_backend_unguarded(explicit, env) ==
    IF explicit # <<>> THEN load_backend(explicit, env.st_available)
    ELSE IF env.backend # <<>> THEN load_backend(env.backend, env.st_available)
    ELSE LET best == SentenceTransformerBackend(DefaultModel, env.st_available)
         IN  IF IsBackend(best) THEN best
             ELSE HashEmbeddingBackend(DefaultDimension)

(* env = [backend : name, st_available : BOOLEAN], the process environment *)
load_default_backend(explicit, env) ==
    IF explicit # <<>> THEN load_backend(explicit, env.st_available)
    ELSE LET from_env == IF env.backend # <<>>
                         THEN load_backend(env.backend, env.st_available)
                         ELSE LoadError("unset")
         IN  IF IsBackend(from_env) THEN from_env
             ELSE LET best == SentenceTransformerBackend(DefaultModel, env.st_available)
                  IN  IF IsBackend(best) THEN best
                      ELSE HashEmbeddingBackend(DefaultDimension)

(* SentenceTransformer.encode(normalize_embeddings=True).astype(float32):  *)
(* the external model, a fixed function of the text with unit float32      *)
(* vectors whose components may be negative.                               *)
ModelEncode(model_name, text) ==
    LET tokens == Range(_tokenize(text))
        has_a == \E t \in tokens : t[1] = "a"
        has_b == \E t \in tokens : t[1] = "b"
    IN  IF has_a /\ has_b THEN <<(3 * Scale) \div 5, (4 * Scale) \div 5>>
        ELSE IF has_a THEN <<Scale, 0>>
        ELSE IF has_b THEN <<-Scale, 0>>
        ELSE <<0, -Scale>>

(* EmbeddingBackend.embed, for one text *)
EmbedText(backend, text) ==
    IF backend.kind = "hash" THEN HashEmbed(backend.dimension, text)
    ELSE ModelEncode(backend.model_name, text)

----------------------------------------------------------------------------
(* Inputs *)

MsgA1 == [message_id |-> "m1", subject |-> <<"a">>, body |-> <<"b">>,
          from_addr |-> "alice@example.com", to_addr |-> "bob@example.com",
          date |-> "2025-02-11T09:30:00+00:00"]
MsgA2 == [message_id |-> "m1", subject |-> <<"a", "b">>, body |-> <<>>,
          from_addr |-> NoneVal, to_addr |-> NoneVal, date |-> NoneVal]
MsgB1 == [message_id |-> "m2", subject |-> <<>>, body |-> <<"A", "b", " ">>,
          from_addr |-> "carol@example.com", to_addr |-> NoneVal, date |-> NoneVal]
MsgB2 == [message_id |-> "m2", subject |-> <<"a">>, body |-> <<"a", " ", "a", "a">>,
          from_addr |-> NoneVal, to_addr |-> "alice@example.com",
          date |-> "not a date"]

Messages == {MsgA1, MsgA2, MsgB1, MsgB2}

Batches == UNION {[1..n -> Messages] : n \in 0..MaxBatch}

Queries == {<<"a">>, <<"B">>, <<" ">>}

Limits == 0..MaxLimit

ExplicitNames == {<<>>, <<"hash", ":", "2">>, <<"hash", ":", "0">>,
                  <<"sentence-transformers/", DefaultModel>>}

EnvNames == {<<>>, <<"hash", ":", "3">>, <<"hash", ":", "x">>, <<DefaultModel>>}

(* the environments of load_default_backend *)
Environments == [backend : EnvNames, st_available : BOOLEAN]

(* the environments the search command runs in *)
RunEnvironments == [backend : {<<>>}, st_available : BOOLEAN]

(* the environment the indexer runs in: no default backend is set and *)
(* the sentence-transformers model is installed                        *)
IndexEnvironments == [backend : {<<>>}, st_available : {TRUE}]

Embedders == {NoEmbedder, HashEmbeddingBackend(2)}

----------------------------------------------------------------------------
RECURSIVE LStrip(_)
LStrip(text) ==
    IF text # <<>> /\ IsSpace(Head(text)) THEN LStrip(Tail(text)) ELSE text

RECURSIVE RStrip(_)
RStrip(text) ==
    IF text # <<>> /\ IsSpace(text[Len(text)])
    THEN RStrip(SubSeq(text, 1, Len(text) - 1)) ELSE text

(* str.strip() *)
Strip(text) == RStrip(LStrip(text))

(* embed is a function of the backend and the text: its values on the  *)
(* texts and backends of the model, computed once                       *)
KnownBackends == {HashEmbeddingBackend(2), HashEmbeddingBackend(DefaultDimension),
                  SentenceTransformerBackend(DefaultModel, TRUE)}

KnownTexts ==
    Queries \cup {Strip(m.subject \o <<"\n", "\n">> \o m.body) : m \in Messages}

EmbedTable == [b \in KnownBackends |-> [t \in KnownTexts |-> EmbedText(b, t)]]

Embed(backend, text) ==
    IF backend \in KnownBackends /\ text \in KnownTexts
    THEN EmbedTable[backend][text]
    ELSE EmbedText(backend, text)

----------------------------------------------------------------------------
(* database.py : the three tables and their mutations *)

VARIABLES messages, messages_fts, message_vectors, call

vars == <<messages, messages_fts, message_vectors, call>>

(* a variant that keeps the stored value of an optional column the new *)
(* record leaves empty                                                 *)
UpsertRowMerging(table, message) ==
    [id \in DOMAIN table \cup {message.message_id} |->
        IF id # message.message_id THEN table[id]
        ELSE IF id \notin DOMAIN table THEN message
        ELSE [message EXCEPT
                !.from_addr = IF @ = NoneVal THEN table[id].from_addr ELSE @,
                !.to_addr = IF @ = NoneVal THEN table[id].to_addr ELSE @,
                !.date = IF @ = NoneVal THEN table[id].date ELSE @]]

(* INSERT ... ON CONFLICT(message_id) DO UPDATE SET <every column> *)
UpsertRow(table, message) ==
    [id \in DOMAIN table \cup {message.message_id} |->
        IF id = message.message_id THEN message ELSE table[id]]

(* a variant that leaves the old entry in place *)
FtsDeleteNothing(fts, message_id) == fts

(* DELETE FROM messages_fts WHERE message_id = ? *)
FtsDelete(fts, message_id) ==
    SelectSeqBy(fts, {e \in Range(fts) : e.message_id # message_id})

(* INSERT INTO messages_fts(message_id, subject, body) *)
FtsInsert(fts, message) ==
    Append(fts, [message_id |-> message.message_id,
                 subject |-> message.subject, body |-> message.body])

(* one iteration of the loop of upsert_many, the body of upsert_message *)
UpsertOne(db, message) ==
    [messages |-> UpsertRow(db.messages, message),
     messages_fts |-> FtsInsert(FtsDelete(db.messages_fts, message.message_id), message)]

RECURSIVE UpsertAll(_, _)
UpsertAll(db, batch) ==
    IF batch = <<>> THEN db
    ELSE UpsertAll(UpsertOne(db, Head(batch)), Tail(batch))

(* a variant that counts the identifiers of the batch *)
UpsertCountDistinct(batch) ==
    Cardinality({batch[i].message_id : i \in DOMAIN batch})

(* upsert_many's count: count += 1 for every message of the batch *)
RECURSIVE UpsertCount(_)
UpsertCount(batch) ==
    IF batch = <<>> THEN 0 ELSE UpsertCount(Tail(batch)) + 1

(* MailDatabase.transaction: commit, or roll back when the body raises *)
Transaction(before, after, raised) == IF raised THEN before ELSE after

(* a variant that keeps the stored row of a message that has one *)
StoreOneKeeping(vectors, message_id, backend, payload) ==
    LET row == [message_id |-> message_id, backend |-> backend, embedding |-> payload]
    IN  IF \E i \in DOMAIN vectors : vectors[i].message_id = message_id
        THEN vectors
        ELSE Append(vectors, row)

(* INSERT INTO message_vectors ... ON CONFLICT(message_id) DO UPDATE SET *)
(* backend, embedding: the row of the message is overwritten in place.   *)
StoreOne(vectors, message_id, backend, payload) ==
    LET row == [message_id |-> message_id, backend |-> backend, embedding |-> payload]
    IN  IF \E i \in DOMAIN vectors : vectors[i].message_id = message_id
        THEN [i \in DOMAIN vectors |->
                IF vectors[i].message_id = message_id THEN row ELSE vectors[i]]
        ELSE Append(vectors, row)

RECURSIVE StoreAll(_, _, _)
StoreAll(vectors, backend, embeddings) ==
    IF embeddings = <<>> THEN vectors
    ELSE StoreAll(StoreOne(vectors, Head(embeddings)[1], backend,
                           serialise_vector(Head(embeddings)[2])),
                  backend, Tail(embeddings))

(* MailDatabase.store_embeddings *)
store_embeddings(vectors, backend, embeddings, raised) ==
    Transaction(vectors, StoreAll(vectors, backend, embeddings), raised)

(* MailDatabase.get_vector_backends *)
get_vector_backends(vectors) == {vectors[i].backend : i \in DOMAIN vectors}

----------------------------------------------------------------------------
(* indexer.py : MailIndexer *)

(* MailIndexer._embedding_text *)
_embedding_text(message) ==
    Strip(message.subject \o <<"\n", "\n">> \o message.body)

Outcomes == {"ok", "upsert_raises", "embed_raises", "store_raises"}

(* What can raise: a storage statement needs a row to execute on; only *)
(* the external model's encode can raise while embedding.              *)
CanHappen(outcome, batch, embedder) ==
    CASE outcome = "ok" -> TRUE
      [] outcome = "upsert_raises" -> batch # <<>>
      [] outcome = "embed_raises" -> batch # <<>> /\ embedder.kind = "st"
      [] outcome = "store_raises" -> batch # <<>>

(* MailIndexer.index_mbox on the parsed messages of the mbox.  db is the  *)
(* three tables; the result is the tables after the call, whether the    *)
(* call raised, the embedder of the indexer after it, and its result.    *)
index_mbox(db, batch, embedder, env, outcome) ==
    LET upserted == Transaction([messages |-> db.messages, messages_fts |-> db.messages_fts],
                                UpsertAll([messages |-> db.messages,
                                           messages_fts |-> db.messages_fts], batch),
                                outcome = "upsert_raises")
        inserted == UpsertCount(batch)
        resolved == IF embedder = NoEmbedder THEN load_default_backend(<<>>, env)
                    ELSE embedder
        payloads == [i \in DOMAIN batch |-> <<batch[i].message_id, _embedding_text(batch[i])>>]
        serialisable == [i \in DOMAIN payloads |->
                            <<payloads[i][1], Embed(resolved, payloads[i][2])>>]
        stored == store_embeddings(db.message_vectors, resolved.identifier,
                                   serialisable, outcome = "store_raises")
    IN  IF outcome = "upsert_raises"
        THEN [messages |-> upserted.messages, messages_fts |-> upserted.messages_fts,
              message_vectors |-> db.message_vectors,
              raised |-> TRUE, embedder |-> embedder, processed |-> 0, inserted |-> 0]
        ELSE IF batch = <<>>
        THEN [messages |-> upserted.messages, messages_fts |-> upserted.messages_fts,
              message_vectors |-> db.message_vectors,
              raised |-> FALSE, embedder |-> resolved,
              processed |-> Len(batch), inserted |-> inserted]
        ELSE IF outcome = "embed_raises"
        THEN [messages |-> upserted.messages, messages_fts |-> upserted.messages_fts,
              message_vectors |-> db.message_vectors,
              raised |-> TRUE, embedder |-> resolved, processed |-> 0, inserted |-> 0]
        ELSE [messages |-> upserted.messages, messages_fts |-> upserted.messages_fts,
              message_vectors |-> stored,
              raised |-> outcome = "store_raises", embedder |-> resolved,
              processed |-> IF outcome = "ok" THEN Len(batch) ELSE 0,
              inserted |-> IF outcome = "ok" THEN inserted ELSE 0]

Database == [messages |-> messages, messages_fts |-> messages_fts,
             message_vectors |-> message_vectors]

----------------------------------------------------------------------------
(* database.py : queries *)

(* stable sort of a sequence of [key, row] records by ascending key *)
RECURSIVE InsertByKey(_, _)
InsertByKey(sorted, item) ==
    IF sorted = <<>> THEN <<item>>
    ELSE IF Head(sorted).key <= item.key
         THEN <<Head(sorted)>> \o InsertByKey(Tail(sorted), item)
         ELSE <<item>> \o sorted

RECURSIVE SortByKey(_)
SortByKey(items) ==
    IF items = <<>> THEN <<>>
    ELSE InsertByKey(SortByKey(SubSeq(items, 1, Len(items) - 1)), items[Len(items)])

RECURSIVE Flatten(_)
Flatten(seqs) == IF seqs = <<>> THEN <<>> ELSE Head(seqs) \o Flatten(Tail(seqs))

(* the terms the full text index sees in a text: case-folded runs of *)
(* alphanumerics                                                      *)
FtsTerms(text) == _tokenize(text)

Occurrences(terms, term) == Cardinality({i \in DOMAIN terms : terms[i] = term})

(* messages_fts MATCH ?: every term of the query occurs in the entry *)
FtsMatch(entry, query) ==
    \A term \in Range(FtsTerms(query)) :
        term \in Range(FtsTerms(entry.subject)) \cup Range(FtsTerms(entry.body))

(* bm25(messages_fts): smaller is better; the more occurrences of the *)
(* query's terms, the smaller                                         *)
Bm25(entry, query) ==
    LET terms == FtsTerms(entry.subject) \o FtsTerms(entry.body)
        qterms == FtsTerms(query)
    IN  -SumSeq([i \in DOMAIN qterms |-> Occurrences(terms, qterms[i])]) * Scale

(* snippet(messages_fts, 2, '<b>', '</b>', ...): the body, its matched *)
(* terms highlighted                                                   *)
FtsSnippet(entry, query) ==
    LET terms == FtsTerms(entry.body)
        qterms == Range(FtsTerms(query))
        shown == [i \in DOMAIN terms |->
                    (IF i > 1 THEN <<" ">> ELSE <<>>)
                    \o (IF terms[i] \in qterms
                        THEN <<"<b>">> \o terms[i] \o <<"</b>">>
                        ELSE terms[i])]
    IN  Flatten(shown)

(* MailDatabase.search: FROM messages_fts JOIN messages ... ORDER BY    *)
(* score LIMIT ?.  The query is a well formed full text expression.     *)
search(db, query, limit) ==
    LET fts == db.messages_fts
        matching == SelectSeqBy(fts, {e \in Range(fts) :
                        e.message_id \in DOMAIN db.messages /\ FtsMatch(e, query)})
        keyed == [i \in DOMAIN matching |->
                    [key |-> Bm25(matching[i], query),
                     row |-> LET m == db.messages[matching[i].message_id]
                             IN  [message_id |-> m.message_id, subject |-> m.subject,
                                  from_addr |-> m.from_addr, to_addr |-> m.to_addr,
                                  date |-> m.date,
                                  snippet |-> FtsSnippet(matching[i], query),
                                  score |-> Bm25(matching[i], query)]]]
        ordered == SortByKey(keyed)
    IN  Take([i \in DOMAIN ordered |-> ordered[i].row], limit)

(* str.split(): the maximal runs of non-space characters *)
RECURSIVE SplitFrom(_, _, _)
SplitFrom(text, current, words) ==
    IF text = <<>>
    THEN IF current # <<>> THEN Append(words, current) ELSE words
    ELSE IF ~IsSpace(Head(text))
         THEN SplitFrom(Tail(text), Append(current, Head(text)), words)
         ELSE IF current # <<>>
              THEN SplitFrom(Tail(text), <<>>, Append(words, current))
              ELSE SplitFrom(Tail(text), current, words)

(* semantic.body_preview *)
body_preview(text) ==
    LET words == SplitFrom(text, <<>>, <<>>)
        collapsed == Flatten([i \in DOMAIN words |->
                        (IF i > 1 THEN <<" ">> ELSE <<>>) \o words[i]])
    IN  IF Len(collapsed) <= PreviewLength THEN collapsed
        ELSE RStrip(SubSeq(collapsed, 1, PreviewLength - 1)) \o <<"...">>

(* a variant that takes no vector for degenerate *)
AllZeroNever(vector) == FALSE

(* all(component == 0.0 for component in query_vectors[0]) *)
AllZero(vector) == \A i \in DOMAIN vector : vector[i] = 0

(* a variant that keeps a similarity of zero *)
IsMatchOrZero(score) == ~(score < 0)

(* if score <= 0.0: continue *)
IsMatch(score) == ~(score <= 0)

(* MailDatabase.semantic_search.  The result is the list it returns and *)
(* the rows of message_vectors its SELECT read (none when the query is  *)
(* never sent).                                                         *)
semantic_search(db, query, embedder, limit) ==
    LET query_vector == Embed(embedder, query)
        vectors == db.message_vectors
        cursor == SelectSeqBy(vectors, {v \in Range(vectors) :
                        v.backend = embedder.identifier
                        /\ v.message_id \in DOMAIN db.messages})
        keyed == [i \in DOMAIN cursor |->
                    LET score == cosine_similarity(query_vector,
                                                   deserialise_vector(cursor[i].embedding))
                        m == db.messages[cursor[i].message_id]
                    IN  [key |-> -score,
                         row |-> [message_id |-> m.message_id, subject |-> m.subject,
                                  from_addr |-> m.from_addr, to_addr |-> m.to_addr,
                                  date |-> m.date, snippet |-> body_preview(m.body),
                                  score |-> score]]]
        scored == SelectSeqBy(keyed, {k \in Range(keyed) : IsMatch(k.row.score)})
        ordered == SortByKey(scored)
    IN  IF AllZero(query_vector)
        THEN [results |-> <<>>, read |-> <<>>]
        ELSE [results |-> Take([i \in DOMAIN ordered |-> ordered[i].row], limit),
              read |-> [i \in DOMAIN cursor |-> cursor[i].message_id]]

----------------------------------------------------------------------------
(* cli.py : the search command *)

(* the last entry of rows for message_id: a later dictionary assignment *)
(* overwrites an earlier one                                            *)
LastFor(rows, message_id) ==
    rows[CHOOSE i \in DOMAIN rows :
            /\ rows[i].message_id = message_id
            /\ \A j \in DOMAIN rows : rows[j].message_id = message_id => j <= i]

Ids(rows) == {rows[i].message_id : i \in DOMAIN rows}

(* lexical_scores[message_id] = 1.0 / (index + 1), index from 0 *)
LexicalScore(lexical_rows, message_id) ==
    LET i == CHOOSE i \in DOMAIN lexical_rows :
                /\ lexical_rows[i].message_id = message_id
                /\ \A j \in DOMAIN lexical_rows :
                      lexical_rows[j].message_id = message_id => j <= i
    IN  FDiv(Scale, i * Scale)

(* semantic_scores[message_id] = entry["score"] *)
SemanticScore(semantic_rows, message_id) == LastFor(semantic_rows, message_id).score

(* _merge_results; scan is the order in which the set message_ids is *)
(* iterated                                                           *)
_merge_results(lexical_rows, semantic_rows, limit, scan) ==
    LET combined(message_id) ==
            (IF message_id \in Ids(lexical_rows)
             THEN LexicalScore(lexical_rows, message_id) ELSE 0)
            + (IF message_id \in Ids(semantic_rows)
               THEN SemanticScore(semantic_rows, message_id) ELSE 0)
        scored_results == [i \in DOMAIN scan |->
                            [key |-> -combined(scan[i]), row |-> scan[i]]]
        ordered == SortByKey(scored_results)
        payload(message_id) ==
            IF message_id \in Ids(lexical_rows)
            THEN LastFor(lexical_rows, message_id)
            ELSE LastFor(semantic_rows, message_id)
        final == [i \in DOMAIN ordered |->
                    [payload(ordered[i].row) EXCEPT !.score = -ordered[i].key]]
    IN  Take(final, limit)

Modes == {"lexical", "semantic", "hybrid"}

(* a variant in which a missing backend is never fatal *)
MissingIsNeverFatal(mode) == FALSE

(* if mode == "semantic": return 1 *)
MissingIsFatal(mode) == mode = "semantic"

(* a variant that keeps the requested mode *)
RequestedMode(mode, missing) == mode

(* mode = "lexical", when the backend has no stored vector *)
FallbackMode(mode, missing) == IF missing THEN "lexical" ELSE mode

(* _run_search: the exit status, what is displayed, and the queries *)
(* sent to the database, in order                                   *)
_run_search(db, query, limit, mode, explicit, env, scan) ==
    LET loaded == IF mode \in {"semantic", "hybrid"}
                  THEN load_default_backend(explicit, env) ELSE NoEmbedder
        available == get_vector_backends(db.message_vectors)
        missing == mode \in {"semantic", "hybrid"} /\ IsBackend(loaded)
                   /\ loaded.identifier \notin available
        effective == FallbackMode(mode, missing)
        lexical_rows == search(db, query, limit * 2)
        semantic_both == semantic_search(db, query, loaded, limit * 2)
        semantic_only == semantic_search(db, query, loaded, limit)
    IN  IF loaded.kind = "error"
        THEN [status |-> 1, embedder |-> loaded, shown |-> "load error",
              rows |-> <<>>, queries |-> <<>>]
        ELSE IF missing /\ MissingIsFatal(mode)
        THEN [status |-> 1, embedder |-> loaded, shown |-> "no vectors",
              rows |-> <<>>, queries |-> <<>>]
        ELSE IF effective = "lexical"
        THEN [status |-> 0, embedder |-> loaded, shown |-> "lexical",
              rows |-> search(db, query, limit),
              queries |-> <<[kind |-> "lexical", limit |-> limit]>>]
        ELSE IF effective = "semantic"
        THEN [status |-> 0, embedder |-> loaded, shown |-> "semantic",
              rows |-> semantic_only.results,
              queries |-> <<[kind |-> "semantic", limit |-> limit]>>]
        ELSE [status |-> 0, embedder |-> loaded, shown |-> "hybrid",
              rows |-> _merge_results(lexical_rows, semantic_both.results, limit, scan),
              queries |-> <<[kind |-> "lexical", limit |-> limit * 2],
                            [kind |-> "semantic", limit |-> limit * 2]>>]

(* the orders in which _merge_results may scan the union of the two lists *)
Scans(db, query, limit, mode, explicit, env) ==
    LET loaded == load_default_backend(explicit, env)
    IN  IF mode = "hybrid" /\ IsBackend(loaded)
           /\ loaded.identifier \in get_vector_backends(db.message_vectors)
        THEN Perms(Ids(search(db, query, limit * 2))
                   \cup Ids(semantic_search(db, query, loaded, limit * 2).results))
        ELSE {<<>>}

----------------------------------------------------------------------------
(* cli.py : the index command *)

(* the mboxes given to the index command: at most one message *)
Mboxes == {batch \in Batches : Len(batch) <= 1}

(* the values of --embedding-backend given to the index command *)
IndexNames == {<<>>, <<"hash", ":", "0">>}

(* the two counts printed and return 0 after index_mbox; an exception   *)
(* of index_mbox leaves the command with a traceback and exit status 1  *)
_report(embedder, done) ==
    [status |-> IF done.raised THEN 1 ELSE 0,
     shown |-> IF done.raised THEN "traceback" ELSE "indexed",
     messages |-> done.messages, messages_fts |-> done.messages_fts,
     message_vectors |-> done.message_vectors,
     loaded |-> embedder, embedder |-> done.embedder,
     processed |-> done.processed, inserted |-> done.inserted]

(* MailIndexer(database, embedder=embedder).index_mbox(args.source) and *)
(* its report                                                           *)
_index_and_report(db, batch, embedder, env, outcome) ==
    _report(embedder, index_mbox(db, batch, embedder, env, outcome))

(* a variant that indexes without an embedder when the load failed *)
_run_index_ignoring_failure(db, batch, no_embeddings, explicit, env, outcome) ==
    LET loaded == IF ~no_embeddings THEN load_default_backend(explicit, env)
                  ELSE NoEmbedder
    IN  _index_and_report(db, batch, IF IsBackend(loaded) THEN loaded ELSE NoEmbedder,
                          env, outcome)

(* _run_index: the exit status, what is displayed, the tables after the *)
(* command, the embedder the command loaded and the one the indexer     *)
(* ended with                                                           *)
_run_index(db, batch, no_embeddings, explicit, env, outcome) ==
    LET loaded == IF ~no_embeddings THEN load_default_backend(explicit, env)
                  ELSE NoEmbedder
    IN  IF loaded.kind = "error"
        THEN [status |-> 1, shown |-> "load error",
              messages |-> db.messages, messages_fts |-> db.messages_fts,
              message_vectors |-> db.message_vectors,
              loaded |-> loaded, embedder |-> loaded,
              processed |-> 0, inserted |-> 0]
        ELSE _index_and_report(db, batch, loaded, env, outcome)

----------------------------------------------------------------------------
(* State machine.  call is the frame of the call in progress: its      *)
(* arguments and what it returned; Idle between calls.                  *)

Idle == [op |-> "idle"]

Init ==
    /\ messages = <<>>
    /\ messages_fts = <<>>
    /\ message_vectors = <<>>
    /\ call = Idle

(* MailDatabase.upsert_message *)
UpsertMessage ==
    /\ call = Idle
    /\ \E message \in Messages, raised \in BOOLEAN :
        LET db == [messages |-> messages, messages_fts |-> messages_fts]
            after == Transaction(db, UpsertOne(db, message), raised)
        IN  /\ messages' = after.messages
            /\ messages_fts' = after.messages_fts
            /\ UNCHANGED message_vectors
            /\ call' = [op |-> "upsert_message", batch |-> <<message>>,
                        raised |-> raised]

(* MailDatabase.upsert_many *)
UpsertMany ==
    /\ call = Idle
    /\ \E batch \in Batches, raised \in BOOLEAN :
        LET db == [messages |-> messages, messages_fts |-> messages_fts]
            after == Transaction(db, UpsertAll(db, batch), raised)
        IN  /\ raised => batch # <<>>
            /\ messages' = after.messages
            /\ messages_fts' = after.messages_fts
            /\ UNCHANGED message_vectors
            /\ call' = [op |-> "upsert_many", batch |-> batch, raised |-> raised,
                        count |-> IF raised THEN 0 ELSE UpsertCount(batch)]

(* MailIndexer(database, embedder).index_mbox(path) *)
IndexMbox ==
    /\ call = Idle
    /\ \E batch \in Batches, embedder \in Embedders, env \in IndexEnvironments,
          outcome \in Outcomes :
        /\ LET done == index_mbox(Database, batch, embedder, env, outcome)
           IN  /\ CanHappen(outcome, batch, done.embedder)
               /\ messages' = done.messages
               /\ messages_fts' = done.messages_fts
               /\ message_vectors' = done.message_vectors
               /\ call' = [op |-> "index_mbox", batch |-> batch,
                           given |-> embedder, env |-> env,
                           embedder |-> done.embedder,
                           outcome |-> outcome, raised |-> done.raised,
                           processed |-> done.processed, inserted |-> done.inserted]

(* MailDatabase.semantic_search *)
SemanticSearch ==
    /\ call = Idle
    /\ \E query \in Queries, embedder \in KnownBackends, limit \in Limits :
        LET found == semantic_search(Database, query, embedder, limit)
        IN  /\ UNCHANGED <<messages, messages_fts, message_vectors>>
            /\ call' = [op |-> "semantic_search", query |-> query,
                        embedder |-> embedder, limit |-> limit,
                        results |-> found.results, read |-> found.read]

(* mail-search search QUERY --limit N --mode M [--embedding-backend B] *)
RunSearch ==
    /\ call = Idle
    /\ \E query \in Queries, limit \in Limits, mode \in Modes,
          explicit \in ExplicitNames, env \in RunEnvironments :
        /\ mode # "semantic" => FtsTerms(query) # <<>>
        /\ mode = "lexical" => explicit = <<>> /\ env.st_available
        /\ \E scan \in Scans(Database, query, limit, mode, explicit, env) :
            LET done == _run_search(Database, query, limit, mode, explicit, env, scan)
            IN  /\ UNCHANGED <<messages, messages_fts, message_vectors>>
                /\ call' = [op |-> "search", query |-> query, limit |-> limit,
                            mode |-> mode, embedder |-> done.embedder,
                            status |-> done.status, shown |-> done.shown,
                            rows |-> done.rows, queries |-> done.queries]

(* mail-search index SOURCE [--no-embeddings] [--embedding-backend B] *)
RunIndex ==
    /\ call = Idle
    /\ \E batch \in Mboxes, no_embeddings \in BOOLEAN, explicit \in IndexNames,
          env \in IndexEnvironments, outcome \in Outcomes :
        \E done \in {_run_index(Database, batch, no_embeddings, explicit, env, outcome)} :
            /\ IF done.loaded.kind = "error" THEN outcome = "ok"
               ELSE CanHappen(outcome, batch, done.embedder)
            /\ messages' = done.messages
            /\ messages_fts' = done.messages_fts
            /\ message_vectors' = done.message_vectors
            /\ call' = [op |-> "index", batch |-> batch,
                        no_embeddings |-> no_embeddings, explicit |-> explicit,
                        env |-> env, loaded |-> done.loaded, embedder |-> done.embedder,
                        outcome |-> outcome, status |-> done.status,
                        shown |-> done.shown,
                        processed |-> done.processed, inserted |-> done.inserted]

(* semantic.load_default_backend *)
LoadDefaultBackend ==
    /\ call = Idle
    /\ \E explicit \in ExplicitNames, env \in Environments :
        /\ UNCHANGED <<messages, messages_fts, message_vectors>>
        /\ call' = [op |-> "load_default_backend", explicit |-> explicit,
                    env |-> env, result |-> load_default_backend(explicit, env)]

(* the call returns to its caller *)
Return ==
    /\ call # Idle
    /\ call' = Idle
    /\ UNCHANGED <<messages, messages_fts, message_vectors>>

Next ==
    \/ UpsertMessage
    \/ UpsertMany
    \/ IndexMbox
    \/ RunIndex
    \/ SemanticSearch
    \/ RunSearch
    \/ LoadDefaultBackend
    \/ Return

Spec == Init /\ [][Next]_vars

----------------------------------------------------------------------------
(* indexer.py : the conversion of a parsed message.  A raw message is   *)
(* its message-id, subject and date headers and its extracted text      *)
(* body; it has no address header.                                      *)

ParsableDate == "Tue, 11 Feb 2025 09:30:00 +0000"

(* _format_date: None for a missing or empty header, the ISO form of a  *)
(* date that parses, the header itself otherwise                        *)
_format_date(header_value) ==
    IF header_value \in {NoneVal, ""} THEN NoneVal
    ELSE IF header_value = ParsableDate THEN "2025-02-11T09:30:00+00:00"
    ELSE header_value

(* what digest.update(part.encode(...)) has fed to the digest after the *)
(* loop: the parts one after the other                                  *)
RECURSIVE HashInput(_)
HashInput(parts) ==
    IF parts = <<>> THEN <<>> ELSE Head(parts) \o HashInput(Tail(parts))

(* _hash_identity: "generated-" and the hexadecimal SHA-1 digest, a     *)
(* collision-free function of the bytes it was fed                      *)
_hash_identity(parts) == [generated |-> HashInput(parts)]

(* MailIndexer._convert_message *)
_convert_message(message) ==
    LET subject == message.subject
        body == message.body
        date == _format_date(message.date)
    IN  [message_id |-> IF message.message_id \notin {NoneVal, ""}
                        THEN message.message_id
                        ELSE _hash_identity(<<subject,
                                              IF date = NoneVal THEN <<>> ELSE <<date>>,
                                              body>>),
         subject |-> subject, body |-> body,
         from_addr |-> NoneVal, to_addr |-> NoneVal, date |-> date]

RawMessages ==
    [message_id : {NoneVal, "", "m1"},
     subject : {<<>>, <<"a">>, <<"b">>, <<"a", "b">>},
     date : {NoneVal, ParsableDate, "not a date"},
     body : {<<>>, <<"a">>, <<"b">>, <<"a", "b">>}]

(* MailIndexer._convert_message on one message of the mbox *)
ConvertMessage ==
    /\ call = Idle
    /\ \E message \in RawMessages :
        /\ UNCHANGED <<messages, messages_fts, message_vectors>>
        /\ call' = [op |-> "_convert_message", message |-> message,
                    result |-> _convert_message(message)]

NextConvert ==
    \/ ConvertMessage
    \/ Return

SpecConvert == Init /\ [][NextConvert]_vars

----------------------------------------------------------------------------
(* Properties *)

Tables == <<messages, messages_fts, message_vectors>>

(* the last record of a batch that carries the identifier *)
LastOccurrence(batch, message_id) ==
    batch[CHOOSE i \in DOMAIN batch :
            /\ batch[i].message_id = message_id
            /\ \A j \in DOMAIN batch : batch[j].message_id = message_id => j <= i]

(* C1: a run of index_mbox that fails at any step (upsert, embedding,   *)
(* vector write) leaves records, lexical entries and vectors exactly as *)
(* they were before the call.                                           *)
C1_IngestionIsAtomic ==
    [][(call'.op = "index_mbox" /\ call'.raised) => Tables' = Tables]_vars

(* C2: running index_mbox again on the same batch with the same         *)
(* embedder, in the state the first run left, changes no record, no     *)
(* lexical entry and no vector, so no query result changes either.      *)
C2_IngestionIsIdempotent ==
    (call.op = "index_mbox" /\ ~call.raised) =>
        LET again == index_mbox(Database, call.batch, call.given, call.env, "ok")
        IN  /\ again.messages = messages
            /\ again.messages_fts = messages_fts
            /\ again.message_vectors = message_vectors
            /\ \A q \in Queries \ {<<" ">>} :
                  search(again, q, MaxLimit) = search(Database, q, MaxLimit)

(* C2 happens: a completed run on a batch that repeats an identifier,   *)
(* over records and vectors that were already stored                    *)
C2_Witness ==
    /\ call.op = "index_mbox" /\ ~call.raised
    /\ Len(call.batch) = 2
    /\ call.batch[1].message_id = call.batch[2].message_id
    /\ call.batch[1] # call.batch[2]
    /\ Len(messages_fts) = 2
    /\ Len(message_vectors) = 2

(* C3: every stored record has exactly one lexical entry, holding the   *)
(* record's current subject and body, no lexical entry is left without  *)
(* its record, and after an upsert every record of the batch has the    *)
(* fields of its last occurrence in the batch.                          *)
C3_OneFreshLexicalEntry ==
    /\ \A id \in DOMAIN messages :
          /\ Cardinality({i \in DOMAIN messages_fts :
                            messages_fts[i].message_id = id}) = 1
          /\ \A i \in DOMAIN messages_fts :
                messages_fts[i].message_id = id =>
                    /\ messages_fts[i].subject = messages[id].subject
                    /\ messages_fts[i].body = messages[id].body
    /\ \A i \in DOMAIN messages_fts : messages_fts[i].message_id \in DOMAIN messages
    /\ (call.op \in {"upsert_message", "upsert_many"} /\ ~call.raised) =>
          \A i \in DOMAIN call.batch :
              /\ call.batch[i].message_id \in DOMAIN messages
              /\ messages[call.batch[i].message_id]
                    = LastOccurrence(call.batch, call.batch[i].message_id)

(* C3 happens: upsert_many replaced a stored record by a batch that     *)
(* repeats its identifier and ends on a record with empty optional      *)
(* fields                                                               *)
C3_Witness ==
    /\ call.op = "upsert_many" /\ ~call.raised
    /\ call.batch = <<MsgA1, MsgA2>>
    /\ Len(messages_fts) = 2
    /\ messages_fts[1].message_id = "m2"

(* C5: index_mbox leaves every vector stored under another backend's    *)
(* tag than the one it indexes with in place.                           *)
C5_OtherBackendsVectorsKept ==
    [][call'.op = "index_mbox" =>
          \A v \in Range(message_vectors) :
              v.backend # call'.embedder.identifier
                  => v \in Range(message_vectors')]_vars

(* the reciprocal rank 1 / i of an identifier in a ranked list, 0 when *)
(* the list does not hold it                                           *)
ReciprocalRank(rows, message_id) ==
    IF \E i \in DOMAIN rows : rows[i].message_id = message_id
    THEN FDiv(Scale, (CHOOSE i \in DOMAIN rows : rows[i].message_id = message_id) * Scale)
    ELSE 0

(* C4: in hybrid mode every result's score is the sum of its reciprocal *)
(* ranks in the lexical and in the semantic list, the results are in    *)
(* descending order of that score and there are at most limit of them.  *)
C4_HybridIsReciprocalRankFusion ==
    (call.op = "search" /\ call.shown = "hybrid") =>
        LET lexical_rows == search(Database, call.query, call.limit * 2)
            semantic_rows == semantic_search(Database, call.query, call.embedder,
                                             call.limit * 2).results
        IN  /\ Len(call.rows) <= call.limit
            /\ \A i \in DOMAIN call.rows :
                  call.rows[i].score
                      = ReciprocalRank(lexical_rows, call.rows[i].message_id)
                        + ReciprocalRank(semantic_rows, call.rows[i].message_id)
            /\ \A i, j \in DOMAIN call.rows :
                  i < j => call.rows[i].score >= call.rows[j].score

(* the search command found no stored vector of the backend it resolved *)
BackendMissing ==
    /\ call.op = "search"
    /\ IsBackend(call.embedder)
    /\ call.embedder.identifier \notin get_vector_backends(message_vectors)

(* C6: semantic mode without a stored vector of the resolved backend    *)
(* exits with a failure and sends no query, lexical or semantic.        *)
C6_SemanticFailsWithoutVectors ==
    (BackendMissing /\ call.mode = "semantic") =>
        /\ call.status = 1
        /\ call.queries = <<>>
        /\ call.rows = <<>>
        /\ call.shown = "no vectors"

(* C6 happens: the failure is reported although a lexical query would   *)
(* have matched and vectors of another backend are stored               *)
C6_Witness ==
    /\ BackendMissing /\ call.mode = "semantic"
    /\ search(Database, call.query, call.limit) # <<>>
    /\ message_vectors # <<>>

(* C7: hybrid mode without a stored vector of the resolved backend      *)
(* succeeds, sends one lexical query with limit, and shows exactly the  *)
(* rows of lexical mode.                                                *)
C7_HybridDegradesToLexical ==
    (BackendMissing /\ call.mode = "hybrid") =>
        /\ call.status = 0
        /\ call.shown = "lexical"
        /\ call.queries = <<[kind |-> "lexical", limit |-> call.limit]>>
        /\ call.rows = search(Database, call.query, call.limit)

(* C7 happens: the limit cuts the lexical list, which 2 x limit would   *)
(* not have cut                                                         *)
C7_Witness ==
    /\ BackendMissing /\ call.mode = "hybrid"
    /\ call.limit = 1
    /\ Len(call.rows) = 1
    /\ Len(search(Database, call.query, call.limit * 2)) = 2
    /\ message_vectors # <<>>

(* the stored vectors semantic_search has to return: those tagged with  *)
(* the embedder's identifier whose similarity with the query is > 0     *)
Candidates ==
    {i \in DOMAIN message_vectors :
        /\ message_vectors[i].backend = call.embedder.identifier
        /\ cosine_similarity(Embed(call.embedder, call.query),
                             message_vectors[i].embedding) > 0}

CandidateScore(i) ==
    cosine_similarity(Embed(call.embedder, call.query), message_vectors[i].embedding)

(* C8: semantic_search returns the limit best of the stored vectors     *)
(* tagged with the embedder's identifier and of similarity > 0 with the *)
(* query, each once, in non-increasing order of similarity.             *)
C8_SemanticSearchRanking ==
    call.op = "semantic_search" =>
        LET results == call.results
            returned == {i \in Candidates :
                            \E r \in DOMAIN results :
                                results[r].message_id = message_vectors[i].message_id}
        IN  /\ Len(results) = Min(call.limit, Cardinality(Candidates))
            /\ Cardinality(returned) = Len(results)
            /\ \A r \in DOMAIN results :
                  /\ results[r].score > 0
                  /\ \E i \in Candidates :
                        /\ message_vectors[i].message_id = results[r].message_id
                        /\ CandidateScore(i) = results[r].score
            /\ \A r, t \in DOMAIN results : r < t => results[r].score >= results[t].score
            /\ \A i \in Candidates \ returned, r \in DOMAIN results :
                  CandidateScore(i) <= results[r].score

(* C8 happens: two stored vectors match, the better one was stored      *)
(* last, the limit keeps one, and a vector of another backend or of     *)
(* similarity zero is left out                                          *)
C8_Witness ==
    /\ call.op = "semantic_search"
    /\ call.limit = 1
    /\ Len(message_vectors) = 2
    /\ Cardinality(Candidates) = 2
    /\ call.results[1].message_id = message_vectors[2].message_id
    /\ CandidateScore(2) > CandidateScore(1)

(* C9: a query that embeds to the zero vector gets the empty list, and  *)
(* no stored vector is read.                                            *)
C9_DegenerateQueryIsEmpty ==
    (call.op = "semantic_search"
     /\ \A i \in DOMAIN Embed(call.embedder, call.query) :
            Embed(call.embedder, call.query)[i] = 0) =>
        /\ call.results = <<>>
        /\ call.read = <<>>

(* C9 happens: the query has no token and vectors of the embedder's     *)
(* backend are stored                                                   *)
C9_Witness ==
    /\ call.op = "semantic_search"
    /\ _tokenize(call.query) = <<>>
    /\ call.embedder.kind = "hash"
    /\ \E i \in DOMAIN message_vectors :
          message_vectors[i].backend = call.embedder.identifier

(* C10, as stated: load_default_backend always returns a backend.       *)
C10_AlwaysReturnsBackend ==
    call.op = "load_default_backend" => IsBackend(call.result)

(* C10, amended: with an explicit name the result is that backend or    *)
(* its construction error; without one it is the environment's backend  *)
(* if that loads, else the high-quality backend if that loads, else the *)
(* hash backend of the default dimension, and so always a backend.      *)
C10_ResolutionOrder ==
    call.op = "load_default_backend" =>
        LET st == call.env.st_available
            from_env == IF call.env.backend = <<>> THEN LoadError("unset")
                        ELSE load_backend(call.env.backend, st)
        IN  IF call.explicit # <<>>
            THEN call.result = load_backend(call.explicit, st)
            ELSE /\ IsBackend(call.result)
                 /\ IsBackend(from_env) => call.result = from_env
                 /\ (~IsBackend(from_env) /\ st) =>
                        call.result.identifier = <<"sentence-transformers/", DefaultModel>>
                 /\ (~IsBackend(from_env) /\ ~st) =>
                        call.result.identifier = <<"hash/", DefaultDimension>>

(* C10 happens: the environment's backend cannot be built, the model is *)
(* not installed, and the hash backend is returned                      *)
C10_Witness ==
    /\ call.op = "load_default_backend"
    /\ call.explicit = <<>>
    /\ call.env.backend = <<"hash", ":", "x">>
    /\ ~call.env.st_available
    /\ call.result.kind = "hash"

(* C11: when the backend the command asks for cannot be constructed,    *)
(* the index command and the search command exit with a failure that    *)
(* reports the load error, no query is sent and the three tables are    *)
(* left as they were.                                                   *)
C11_LoadFailureStopsCommand ==
    [][/\ (/\ call'.op = "index"
           /\ ~call'.no_embeddings
           /\ load_default_backend(call'.explicit, call'.env).kind = "error")
          => (/\ call'.status = 1
              /\ call'.shown = "load error"
              /\ Tables' = Tables)
       /\ (call'.op = "search" /\ call'.embedder.kind = "error")
          => (/\ call'.status = 1
              /\ call'.shown = "load error"
              /\ call'.queries = <<>>
              /\ call'.rows = <<>>
              /\ Tables' = Tables)]_vars

(* C11 happens: the index command could not construct its backend on    *)
(* an mbox that holds a message, over a store that holds vectors        *)
C11_Witness ==
    /\ call.op = "index"
    /\ ~call.no_embeddings
    /\ load_default_backend(call.explicit, call.env).kind = "error"
    /\ call.batch # <<>>
    /\ message_vectors # <<>>

(* C12: the index command run with --no-embeddings creates, replaces or *)
(* deletes no stored vector: the vector table and the set of backends   *)
(* with a stored vector are the same after the command as before it.    *)
C12_NoEmbeddingsWritesNoVector ==
    [][(call'.op = "index" /\ call'.no_embeddings)
          => (/\ message_vectors' = message_vectors
              /\ get_vector_backends(message_vectors')
                    = get_vector_backends(message_vectors))]_vars

(* the vector read back from storage is the computed one, value for value *)
SameExactly(stored, computed) == deserialise_vector(stored) = computed

(* the vector read back from storage is the computed one as 32-bit floats *)
SameAsFloat32(stored, computed) ==
    deserialise_vector(stored) = deserialise_vector(serialise_vector(computed))

(* after a completed index_mbox on a non-empty batch: the backend has   *)
(* stored vectors, the record of every identifier of the batch is its   *)
(* last occurrence, and the identifier has exactly one stored vector,   *)
(* tagged with the backend and Same as the backend's embedding of the   *)
(* record's text                                                        *)
BatchVectorsAreCurrent(Same(_, _)) ==
    (call.op = "index_mbox" /\ ~call.raised /\ call.batch # <<>>) =>
        /\ call.embedder.identifier \in get_vector_backends(message_vectors)
        /\ \A i \in DOMAIN call.batch :
            LET message_id == call.batch[i].message_id
                rows == {j \in DOMAIN message_vectors :
                            message_vectors[j].message_id = message_id}
            IN  /\ messages[message_id] = LastOccurrence(call.batch, message_id)
                /\ Cardinality(rows) = 1
                /\ \A j \in rows :
                    /\ message_vectors[j].backend = call.embedder.identifier
                    /\ Same(message_vectors[j].embedding,
                            Embed(call.embedder,
                                  Strip(messages[message_id].subject \o <<"\n", "\n">>
                                        \o messages[message_id].body)))

(* C13, as stated: after every completed index_mbox on a non-empty      *)
(* batch with backend E, E.identifier has stored vectors and every      *)
(* record of the batch has exactly one stored vector, tagged            *)
(* E.identifier and equal to E's embedding of the record's current text *)
(* (subject, blank line, body, trimmed), the last occurrence of a       *)
(* repeated identifier giving both the record and the vector.           *)
C13_VectorEqualsEmbedding == BatchVectorsAreCurrent(SameExactly)

(* C13, amended: the same, the stored vector being E's embedding of the *)
(* record's current text rounded to 32-bit floats.                      *)
C13_VectorIsStoredEmbedding == BatchVectorsAreCurrent(SameAsFloat32)

(* C13 happens: a batch that repeats an identifier with other content   *)
(* was indexed, the backend is the only one with stored vectors, and    *)
(* the stored vector is the rounded embedding, not the exact one        *)
C13_Witness ==
    /\ call.op = "index_mbox" /\ ~call.raised
    /\ Len(call.batch) = 2
    /\ call.batch[1].message_id = call.batch[2].message_id
    /\ call.batch[1] # call.batch[2]
    /\ get_vector_backends(message_vectors) = {call.embedder.identifier}
    /\ \E j \in DOMAIN message_vectors :
        /\ message_vectors[j].message_id = call.batch[2].message_id
        /\ message_vectors[j].embedding
              # Embed(call.embedder, _embedding_text(call.batch[2]))

(* C14: every index_mbox run that completes returns processed = the     *)
(* number of messages read from the mbox and inserted = processed, on a *)
(* first run and when it replaces stored records.                       *)
C14_CountsEqualMessagesRead ==
    (call.op = "index_mbox" /\ ~call.raised) =>
        /\ call.processed = Len(call.batch)
        /\ call.inserted = call.processed

(* C14 happens: the run read two messages with one identifier, which    *)
(* replaced a stored record of other content                            *)
C14_Witness ==
    /\ call.op = "index_mbox" /\ ~call.raised
    /\ Len(call.batch) = 2
    /\ call.batch[1].message_id = call.batch[2].message_id
    /\ call.batch[1] # call.batch[2]
    /\ Cardinality(DOMAIN messages) = 2
    /\ call.inserted = 2

(* the identifiers of a result list, in order *)
IdsInOrder(rows) == [i \in DOMAIN rows |-> rows[i].message_id]

(* C15: the hybrid merge is deterministic on ties: for the same lexical *)
(* list, semantic list and limit, every execution of the merge returns  *)
(* the same identifiers in the same order, whatever the order in which  *)
(* the union of the two lists is scanned, so the tied identifiers that  *)
(* survive the truncation to limit are fixed too.                       *)
C15_MergeIsDeterministic ==
    (call.op = "search" /\ call.shown = "hybrid") =>
        LET lexical_rows == search(Database, call.query, call.limit * 2)
            semantic_rows == semantic_search(Database, call.query, call.embedder,
                                             call.limit * 2).results
        IN  \A scan \in Perms(Ids(lexical_rows) \cup Ids(semantic_rows)) :
                IdsInOrder(_merge_results(lexical_rows, semantic_rows,
                                          call.limit, scan))
                    = IdsInOrder(call.rows)

(* the display fields of a result row *)
DisplayFields(row) ==
    [subject |-> row.subject, from_addr |-> row.from_addr, to_addr |-> row.to_addr,
     date |-> row.date, snippet |-> row.snippet]

(* every entry of a hybrid result has the display fields of the lexical *)
(* row of its identifier when the lexical list holds one, and of the    *)
(* semantic entry otherwise, and no identifier appears twice            *)
HybridPayloads(lexical_rows, semantic_rows, rows) ==
    /\ \A i \in DOMAIN rows :
        LET message_id == rows[i].message_id
        IN  /\ message_id \in Ids(lexical_rows) \cup Ids(semantic_rows)
            /\ message_id \in Ids(lexical_rows) =>
                  \E j \in DOMAIN lexical_rows :
                      /\ lexical_rows[j].message_id = message_id
                      /\ DisplayFields(rows[i]) = DisplayFields(lexical_rows[j])
            /\ message_id \notin Ids(lexical_rows) =>
                  \E j \in DOMAIN semantic_rows :
                      /\ semantic_rows[j].message_id = message_id
                      /\ DisplayFields(rows[i]) = DisplayFields(semantic_rows[j])
    /\ \A i, j \in DOMAIN rows : rows[i].message_id = rows[j].message_id => i = j

(* C16: every entry of a hybrid result takes its display fields from    *)
(* the lexical row when its identifier is in the lexical list and from  *)
(* the semantic entry only when it is not; its score is the combined    *)
(* fusion score of the identifier (the sum of its reciprocal ranks in   *)
(* the two lists), not the score of the lexical row or of the semantic  *)
(* entry; and no identifier appears twice.                              *)
C16_HybridEntryPayloadAndScore ==
    (call.op = "search" /\ call.shown = "hybrid") =>
        LET lexical_rows == search(Database, call.query, call.limit * 2)
            semantic_rows == semantic_search(Database, call.query, call.embedder,
                                             call.limit * 2).results
        IN  /\ HybridPayloads(lexical_rows, semantic_rows, call.rows)
            /\ \A i \in DOMAIN call.rows :
                  call.rows[i].score
                      = ReciprocalRank(lexical_rows, call.rows[i].message_id)
                        + ReciprocalRank(semantic_rows, call.rows[i].message_id)

(* the triple the synthetic identifier is computed from *)
IdentityTriple(message) ==
    <<message.subject,
      IF _format_date(message.date) = NoneVal THEN "" ELSE _format_date(message.date),
      message.body>>

NoIdentifierHeader(message) == message.message_id \in {NoneVal, ""}

(* C17: for messages without a message-id header the synthetic          *)
(* identifier is a function of the triple (subject, normalised date or  *)
(* empty, body): a message with the same triple gets the same           *)
(* identifier, and a message with another triple never gets it, the     *)
(* hash being collision-free on its input.                              *)
C17_SyntheticIdentifierIsInjective ==
    (call.op = "_convert_message" /\ NoIdentifierHeader(call.message)) =>
        \A other \in RawMessages :
            NoIdentifierHeader(other) =>
                (_convert_message(other).message_id = call.result.message_id
                    <=> IdentityTriple(other) = IdentityTriple(call.message))

============================================================================
